---------------------------- MODULE Spec2Model ----------------------------
(***************************************************************************)
(* A state-machine model of page_objects/playwright_wrapper.py: the        *)
(* failure interceptor (screenshot_on_error), the Element handle, the      *)
(* BasePage handle and the BrowserManager session.                         *)
(*                                                                         *)
(* The browser-driving engine, the filesystem and the clock are the        *)
(* environment: every call into them draws its outcome from a small set.   *)
(* Each action is one whole call of one public operation; the variable     *)
(* `last` records what that call did and how it ended.                     *)
(***************************************************************************)
EXTENDS Integers, Sequences, FiniteSets, TLC

(***************************************************************************)
(* Bounds of the model.                                                    *)
(***************************************************************************)
MaxClock == 1
MaxFiles == 1
MaxChecks == 1
MaxStarts == 2
MaxContexts == 2
MaxPages == 2
MaxTests == 4

(***************************************************************************)
(* Exceptions.  An exception is its kind (the class) and its message, a    *)
(* sequence of text pieces read as their concatenation.  NoExc stands for  *)
(* a normal return.                                                        *)
(***************************************************************************)
NoExc == [kind |-> "none", msg |-> << >>]

Exc(kind, msg) == [kind |-> kind, msg |-> msg]

\* class ElementNotFound(Exception)
ElementNotFound(msg) == Exc("ElementNotFound", msg)

\* class ActionFailed(Exception)
ActionFailed(msg) == Exc("ActionFailed", msg)

\* class NavigationError(Exception)
NavigationError(msg) == Exc("NavigationError", msg)

\* The engine's own exceptions: playwright's TimeoutError and any other error.
PlaywrightTimeoutError == Exc("PlaywrightTimeoutError", <<"Timeout exceeded.">>)
EngineError == Exc("EngineError", <<"engine error">>)

\* What os.makedirs raises when the directory cannot be created.
OSError == Exc("OSError", <<"cannot create directory">>)

\* str(e), as the f-strings "...: {e}" interpolate it.
Str(e) == e.msg

\* The exception an engine call raises for its outcome ("ok" raises none).
Raised(outcome) ==
    CASE outcome = "timeout" -> PlaywrightTimeoutError
      [] outcome = "error"   -> EngineError
      [] OTHER               -> NoExc

(***************************************************************************)
(* Log records written through Logger.info / Logger.error.                 *)
(***************************************************************************)
Info(text) == [level |-> "INFO", text |-> text]
Error(text) == [level |-> "ERROR", text |-> text]

ErrorRecords(log) == {i \in 1..Len(log) : log[i].level = "ERROR"}

(***************************************************************************)
(* Element._valid_methods, each name spelled as its characters (difflib    *)
(* compares characters).                                                   *)
(***************************************************************************)
Spell ==
    [click         |-> <<"c","l","i","c","k">>,
     fill          |-> <<"f","i","l","l">>,
     hover         |-> <<"h","o","v","e","r">>,
     type          |-> <<"t","y","p","e">>,
     press         |-> <<"p","r","e","s","s">>,
     select_option |-> <<"s","e","l","e","c","t","_","o","p","t","i","o","n">>,
     get_text      |-> <<"g","e","t","_","t","e","x","t">>,
     get_attribute |-> <<"g","e","t","_","a","t","t","r","i","b","u","t","e">>,
     wait_for      |-> <<"w","a","i","t","_","f","o","r">>,
     is_visible    |-> <<"i","s","_","v","i","s","i","b","l","e">>,
     is_hidden     |-> <<"i","s","_","h","i","d","d","e","n">>,
     is_enabled    |-> <<"i","s","_","e","n","a","b","l","e","d">>,
     screenshot    |-> <<"s","c","r","e","e","n","s","h","o","t">>]

_valid_methods ==
    << "click", "fill", "hover", "type", "press", "select_option", "get_text",
       "get_attribute", "wait_for", "is_visible", "is_hidden", "is_enabled",
       "screenshot" >>

ValidNames == {Spell[_valid_methods[i]] : i \in 1..Len(_valid_methods)}

\* The supported operation whose spelling is the name n (n \in ValidNames).
OpOf(n) == CHOOSE op \in DOMAIN Spell : Spell[op] = n

(***************************************************************************)
(* difflib, as Element._suggest_method uses it:                            *)
(*   get_close_matches(name, self._valid_methods, n=1)   (cutoff 0.6)      *)
(* Strings are sequences of characters; a[i] of Python is a[i+1] here, and *)
(* ranges are Python's half-open alo..ahi-1.                               *)
(***************************************************************************)
Min(x, y) == IF x <= y THEN x ELSE y

\* Whether a[i:i+k] == b[j:j+k].
SameBlock(a, b, i, j, k) == \A d \in 0..(k - 1) : a[i + d + 1] = b[j + d + 1]

\* SequenceMatcher.find_longest_match: the longest block common to
\* a[alo:ahi] and b[blo:bhi]; of the longest, the one starting earliest in a,
\* and of those the one starting earliest in b; <<alo, blo, 0>> when none.
find_longest_match(a, b, alo, ahi, blo, bhi) ==
    LET blocks == {m \in (alo..(ahi - 1)) \X (blo..(bhi - 1)) \X (1..(ahi - alo)) :
                      /\ m[1] + m[3] <= ahi
                      /\ m[2] + m[3] <= bhi
                      /\ SameBlock(a, b, m[1], m[2], m[3])}
        Better(m, n) == \/ m[3] > n[3]
                        \/ m[3] = n[3] /\ m[1] < n[1]
                        \/ m[3] = n[3] /\ m[1] = n[1] /\ m[2] < n[2]
    IN  IF blocks = {} THEN <<alo, blo, 0>>
        ELSE CHOOSE m \in blocks : \A n \in blocks \ {m} : Better(m, n)

\* SequenceMatcher.get_matching_blocks, summed: the match, then the pieces
\* to its left and to its right.
RECURSIVE matching_size(_, _, _, _, _, _)
matching_size(a, b, alo, ahi, blo, bhi) ==
    LET m == find_longest_match(a, b, alo, ahi, blo, bhi)
        i == m[1]
        j == m[2]
        k == m[3]
    IN  IF k = 0 THEN 0
        ELSE k + (IF alo < i /\ blo < j
                  THEN matching_size(a, b, alo, i, blo, j) ELSE 0)
               + (IF i + k < ahi /\ j + k < bhi
                  THEN matching_size(a, b, i + k, ahi, j + k, bhi) ELSE 0)

\* _calculate_ratio: 2.0 * matches / length, kept as the fraction <<num, den>>;
\* 1.0 when both strings are empty.
_calculate_ratio(matches, length) ==
    IF length > 0 THEN <<2 * matches, length>> ELSE <<1, 1>>

\* SequenceMatcher(None, a, b).ratio()
ratio(a, b) ==
    _calculate_ratio(matching_size(a, b, 0, Len(a), 0, Len(b)), Len(a) + Len(b))

\* How often the character c occurs in s.
Count(s, c) == Cardinality({i \in 1..Len(s) : s[i] = c})

RECURSIVE SumOver(_, _, _)
SumOver(S, a, b) ==
    IF S = {} THEN 0
    ELSE LET c == CHOOSE x \in S : TRUE
         IN  Min(Count(a, c), Count(b, c)) + SumOver(S \ {c}, a, b)

\* SequenceMatcher.quick_ratio: the characters in common, position ignored.
quick_ratio(a, b) ==
    _calculate_ratio(SumOver({a[i] : i \in 1..Len(a)}, a, b), Len(a) + Len(b))

\* SequenceMatcher.real_quick_ratio: from the lengths alone.
real_quick_ratio(a, b) ==
    _calculate_ratio(Min(Len(a), Len(b)), Len(a) + Len(b))

\* Comparison of fractions with positive denominators.
FracGeq(x, y) == x[1] * y[2] >= y[1] * x[2]
FracGt(x, y) == x[1] * y[2] > y[1] * x[2]

\* The characters in their code order ('_' is below the lower-case letters).
Alphabet ==
    << "_", "a", "b", "c", "d", "e", "f", "g", "h", "i", "j", "k", "l", "m",
       "n", "o", "p", "q", "r", "s", "t", "u", "v", "w", "x", "y", "z" >>

Ord(c) == CHOOSE i \in 1..Len(Alphabet) : Alphabet[i] = c

\* Python's s > t on strings.
RECURSIVE StrGt(_, _)
StrGt(s, t) ==
    IF s = << >> THEN FALSE
    ELSE IF t = << >> THEN TRUE
    ELSE IF s[1] # t[1] THEN Ord(s[1]) > Ord(t[1])
    ELSE StrGt(Tail(s), Tail(t))

\* get_close_matches' default cutoff, 0.6.
Cutoff == <<6, 10>>

\* The (score, x) pairs get_close_matches collects: the possibilities x whose
\* three ratios against the word all reach the cutoff.
close_results(word, possibilities) ==
    {<<ratio(x, word), x>> : x \in
        {p \in {possibilities[i] : i \in 1..Len(possibilities)} :
            /\ FracGeq(real_quick_ratio(p, word), Cutoff)
            /\ FracGeq(quick_ratio(p, word), Cutoff)
            /\ FracGeq(ratio(p, word), Cutoff)}}

\* get_close_matches(word, possibilities, n=1): heapq.nlargest(1, result) is
\* the greatest (score, x) pair, ties in score going to the greater string.
get_close_matches(word, possibilities) ==
    LET result == close_results(word, possibilities)
        Above(r, s) == \/ FracGt(r[1], s[1])
                       \/ ~FracGt(s[1], r[1]) /\ StrGt(r[2], s[2])
    IN  IF result = {} THEN << >>
        ELSE << (CHOOSE r \in result : \A s \in result \ {r} : Above(r, s))[2] >>

(***************************************************************************)
(* The environment's data: selectors, texts, screenshot paths.             *)
(***************************************************************************)
None == "None"

\* Selectors a test may pass; the page holds a node for those in Present.
Selectors == {"#present", "nonexistent-selector"}
Present == {"#present"}

\* Text contents and expected texts.
Texts == {"X", "Y"}

\* os.path.join(screenshots_dir, f"{prefix}_{timestamp}.png")
Path(dir, prefix, timestamp) == <<dir, prefix, timestamp>>

\* A path the caller passes to screenshot / take_screenshot itself.
UserPath == <<"screenshots", "user", 0>>

\* What one call reads from its environment: the outcome of its engine
\* primitive (eng) and the value that returns (val), whether os.makedirs
\* succeeds (dirOk), whether the interceptor's page.screenshot succeeds
\* (capOk), and the reading of datetime.now() that names the call's file
\* (no call writes a file under more than one of its readings).
Env(eng, val, dirOk, capOk, now) ==
    [eng |-> eng, val |-> val, dirOk |-> dirOk, capOk |-> capOk, now |-> now]

\* How a method body ends: the exception it raises (NoExc: none), the value
\* it returns, the log records it wrote, the engine calls it made, the files
\* it wrote and the soft check it recorded ("pass", "fail" or "none").
Outcome(exc, ret, log, calls, written) ==
    [exc |-> exc, ret |-> ret, log |-> log, calls |-> calls, written |-> written,
     check |-> "none"]

\* A variant of the interceptor that calls the wrapped method a second time
\* before it captures.
ScreenshotOnErrorRetry(name, m, self, env) ==
    IF m.exc = NoExc
    THEN [exc |-> NoExc, inner |-> NoExc, ret |-> m.ret, log |-> m.log,
          calls |-> m.calls, written |-> m.written, check |-> m.check,
          captures |-> 0, diag |-> "none"]
    ELSE IF ~env.dirOk
    \* os.makedirs(screenshots_dir, exist_ok=True) raises inside the handler
    THEN [exc |-> OSError, inner |-> m.exc, ret |-> <<None>>, log |-> m.log,
          calls |-> m.calls, written |-> m.written, check |-> m.check,
          captures |-> 0, diag |-> "makedirs raised"]
    ELSE LET screenshot_path == Path(self.screenshots_dir, "error", env.now)
             shot == self.page # None
             saved == shot /\ env.capOk
             logShot == IF ~shot THEN << >>
                        ELSE IF saved
                        THEN <<Error(<<"Screenshot captured: ", screenshot_path>>)>>
                        ELSE <<Error(<<"Failed to capture screenshot: ">>
                                     \o Str(EngineError))>>
         IN  [exc |-> m.exc, inner |-> m.exc, ret |-> <<None>>,
              log |-> m.log \o logShot
                      \o <<Error(<<"Exception in ", name, ": ">> \o Str(m.exc))>>,
              calls |-> m.calls \o m.calls \o (IF shot THEN <<"page.screenshot">> ELSE << >>),
              written |-> m.written \cup (IF saved THEN {screenshot_path} ELSE {}),
              check |-> m.check,
              captures |-> IF shot THEN 1 ELSE 0,
              diag |-> IF ~shot THEN "no page"
                       ELSE IF saved THEN "captured" ELSE "capture raised"]

(***************************************************************************)
(* screenshot_on_error: the wrapper around a method whose body ended as m. *)
(* It adds to m: inner, the exception the body raised; captures, how many  *)
(* times the wrapper called page.screenshot; diag, how its own handler     *)
(* went ("none": it did not run).                                          *)
(***************************************************************************)
screenshot_on_error(name, m, self, env) ==
    IF m.exc = NoExc
    THEN [exc |-> NoExc, inner |-> NoExc, ret |-> m.ret, log |-> m.log,
          calls |-> m.calls, written |-> m.written, check |-> m.check,
          captures |-> 0, diag |-> "none"]
    ELSE IF ~env.dirOk
    \* os.makedirs(screenshots_dir, exist_ok=True) raises inside the handler
    THEN [exc |-> OSError, inner |-> m.exc, ret |-> <<None>>, log |-> m.log,
          calls |-> m.calls, written |-> m.written, check |-> m.check,
          captures |-> 0, diag |-> "makedirs raised"]
    ELSE LET screenshot_path == Path(self.screenshots_dir, "error", env.now)
             shot == self.page # None
             saved == shot /\ env.capOk
             logShot == IF ~shot THEN << >>
                        ELSE IF saved
                        THEN <<Error(<<"Screenshot captured: ", screenshot_path>>)>>
                        ELSE <<Error(<<"Failed to capture screenshot: ">>
                                     \o Str(EngineError))>>
         IN  [exc |-> m.exc, inner |-> m.exc, ret |-> <<None>>,
              log |-> m.log \o logShot
                      \o <<Error(<<"Exception in ", name, ": ">> \o Str(m.exc))>>,
              calls |-> m.calls \o (IF shot THEN <<"page.screenshot">> ELSE << >>),
              written |-> m.written \cup (IF saved THEN {screenshot_path} ELSE {}),
              check |-> m.check,
              captures |-> IF shot THEN 1 ELSE 0,
              diag |-> IF ~shot THEN "no page"
                       ELSE IF saved THEN "captured" ELSE "capture raised"]

\* A method that screenshot_on_error does not wrap.
Unwrapped(m) ==
    [exc |-> m.exc, inner |-> m.exc, ret |-> m.ret, log |-> m.log,
     calls |-> m.calls, written |-> m.written, check |-> m.check,
     captures |-> 0, diag |-> "none"]

(***************************************************************************)
(* class Element.  A handle is [locator, page, screenshots_dir]; the       *)
(* logger is the shared one.                                               *)
(***************************************************************************)
\* Element.__init__
Element(locator, page, screenshots_dir) ==
    [locator |-> locator, page |-> page, screenshots_dir |-> screenshots_dir]

\* The engine primitive each operation calls.
Primitive ==
    [click         |-> "locator.click",
     fill          |-> "locator.fill",
     hover         |-> "locator.hover",
     type          |-> "locator.type",
     press         |-> "locator.press",
     select_option |-> "locator.select_option",
     get_text      |-> "locator.text_content",
     get_attribute |-> "locator.get_attribute",
     wait_for      |-> "locator.wait_for",
     is_visible    |-> "locator.is_visible",
     is_hidden     |-> "locator.is_hidden",
     is_enabled    |-> "locator.is_enabled",
     screenshot    |-> "locator.screenshot"]

\* The text after "Timeout" in the except PlaywrightTimeoutError branch.
TimeoutText ==
    [click         |-> " clicking element: ",
     fill          |-> " filling element: ",
     hover         |-> " hovering element: ",
     type          |-> " typing into element: ",
     press         |-> " pressing key on element: ",
     select_option |-> " selecting option in element: ",
     get_text      |-> " getting text from element: ",
     get_attribute |-> " getting attribute from element: ",
     wait_for      |-> " waiting for element: ",
     is_visible    |-> " checking visibility for element: ",
     is_hidden     |-> " checking hidden for element: ",
     is_enabled    |-> " checking enabled for element: "]

\* The text after "Failed to" in the except Exception branch.
FailedText ==
    [click         |-> " click element: ",
     fill          |-> " fill element: ",
     hover         |-> " hover element: ",
     type          |-> " type into element: ",
     press         |-> " press key on element: ",
     select_option |-> " select option: ",
     get_text      |-> " get text: ",
     get_attribute |-> " get attribute: ",
     wait_for      |-> " wait for element: ",
     is_visible    |-> " check visibility: ",
     is_hidden     |-> " check hidden: ",
     is_enabled    |-> " check enabled: ",
     screenshot    |-> " take element screenshot: "]

\* The operations that return self; the others return the engine's value.
ReturnsSelf == {"click", "fill", "hover", "type", "press", "select_option", "wait_for"}

\* The body of click, fill, hover, type, press, select_option, get_text,
\* get_attribute, wait_for, is_visible, is_hidden, is_enabled: one engine
\* call under try / except PlaywrightTimeoutError / except Exception.
ElementBody(op, self, env) ==
    LET calls == <<Primitive[op]>>
    IN  CASE env.eng = "ok" ->
               Outcome(NoExc,
                       IF op \in ReturnsSelf THEN <<"self">> ELSE <<env.val>>,
                       <<Info(<<op, self.locator>>)>>, calls, {})
          [] env.eng = "timeout" ->
               LET msg == <<"Timeout", TimeoutText[op], self.locator>>
               IN  Outcome(ActionFailed(msg), <<None>>, <<Error(msg)>>, calls, {})
          [] OTHER ->
               LET msg == <<"Failed to", FailedText[op]>> \o Str(Raised(env.eng))
               IN  Outcome(ActionFailed(msg), <<None>>, <<Error(msg)>>, calls, {})

\* The body of Element.screenshot(path): makedirs, the path, one engine
\* call, under try / except Exception alone.
ElementScreenshotBody(self, path, env) ==
    LET p == IF path = None
             THEN Path(self.screenshots_dir, "element", env.now) ELSE path
        failed(e, calls) ==
            LET msg == <<"Failed to", FailedText["screenshot"]>> \o Str(e)
            IN  Outcome(ActionFailed(msg), <<None>>, <<Error(msg)>>, calls, {})
    IN  IF ~env.dirOk THEN failed(OSError, << >>)
        ELSE IF env.eng # "ok"
        THEN failed(Raised(env.eng), <<Primitive["screenshot"]>>)
        ELSE Outcome(NoExc, p, <<Info(<<"Screenshot of element saved: ", p>>)>>,
                     <<Primitive["screenshot"]>>, {p})

\* Element.<op>(...), as decorated with @screenshot_on_error.
ElementCall(op, self, path, env) ==
    screenshot_on_error(op,
        IF op = "screenshot" THEN ElementScreenshotBody(self, path, env)
        ELSE ElementBody(op, self, env),
        self, env)

\* A variant of _suggest_method that names the first supported operation
\* within the cutoff, in the order of _valid_methods, not the closest.
SuggestFirstClose(name) ==
    LET close == {i \in 1..Len(_valid_methods) :
                     FracGeq(ratio(Spell[_valid_methods[i]], name), Cutoff)}
    IN  IF close # {}
        THEN <<"Did you mean: ",
               _valid_methods[CHOOSE i \in close : \A j \in close : i <= j], "()?">>
        ELSE <<"No similar method found.">>

\* Element._suggest_method
_suggest_method(name) ==
    LET suggestion ==
            get_close_matches(name, [i \in 1..Len(_valid_methods) |->
                                        Spell[_valid_methods[i]]])
    IN  IF suggestion # << >>
        THEN <<"Did you mean: ", OpOf(suggestion[1]), "()?">>
        ELSE <<"No similar method found.">>

\* Element.__getattr__(name): Python calls it for a name that neither the
\* instance nor the class defines.
Element__getattr__(name) ==
    IF name \notin ValidNames
    THEN LET msg == <<"Element has no method '", name, "'. ">>
                    \o _suggest_method(name)
         IN  Outcome(Exc("AttributeError", msg), <<None>>, <<Error(msg)>>, << >>, {})
    ELSE Outcome(NoExc, <<"method", OpOf(name)>>, << >>, << >>, {})

\* The names class Element defines as operations: ordinary attribute lookup
\* finds them and __getattr__ is not called.
ElementMethods == ValidNames

\* getattr(element, name)
ElementGetAttr(name) ==
    IF name \in ElementMethods
    THEN Unwrapped(Outcome(NoExc, <<"method", OpOf(name)>>, << >>, << >>, {}))
    ELSE Unwrapped(Element__getattr__(name))

(***************************************************************************)
(* class BasePage.  A page handle is [page, screenshots_dir].              *)
(***************************************************************************)
BasePage(page, screenshots_dir) == [page |-> page, screenshots_dir |-> screenshots_dir]

\* BasePage.find(selector): not decorated.  locator is what page.locator
\* returned (None stands for a falsy locator).
find(self, selector, locator, env) ==
    LET calls == <<"page.locator">>
        caught(e, log) ==
            LET msg == <<"Failed to", " find element: ">> \o Str(e)
            IN  Outcome(ElementNotFound(msg), <<None>>, log \o <<Error(msg)>>, calls, {})
    IN  Unwrapped(
          IF env.eng # "ok" THEN caught(Raised(env.eng), << >>)
          ELSE IF locator = None
          THEN LET msg == <<"Element not found: ", selector>>
               IN  caught(ElementNotFound(msg), <<Error(msg)>>)
          ELSE Outcome(NoExc, <<"Element", locator>>,
                       <<Info(<<"Found element: ", selector>>)>>, calls, {}))

\* The body of wait_for_url and of wait_for_selector: one engine call under
\* try / except PlaywrightTimeoutError / except Exception, raising `kind`.
WaitBody(prim, kind, what, failedWhat, target, env) ==
    LET calls == <<prim>>
    IN  CASE env.eng = "ok" ->
               Outcome(NoExc, <<None>>, <<Info(<<"Waited for", what, target>>)>>,
                       calls, {})
          [] env.eng = "timeout" ->
               LET msg == <<"Timeout", what, target>>
               IN  Outcome(Exc(kind, msg), <<None>>, <<Error(msg)>>, calls, {})
          [] OTHER ->
               LET msg == <<"Failed to", failedWhat>> \o Str(Raised(env.eng))
               IN  Outcome(Exc(kind, msg), <<None>>, <<Error(msg)>>, calls, {})

\* BasePage.wait_for_url(url)
wait_for_url(self, url, env) ==
    screenshot_on_error("wait_for_url",
        WaitBody("page.wait_for_url", "NavigationError", " waiting for URL: ",
                 " wait for URL: ", url, env),
        self, env)

\* BasePage.wait_for_selector(selector)
wait_for_selector(self, selector, env) ==
    screenshot_on_error("wait_for_selector",
        WaitBody("page.wait_for_selector", "ElementNotFound",
                 " waiting for selector: ", " wait for selector: ", selector, env),
        self, env)

\* BasePage.take_screenshot(path)
take_screenshot(self, path, env) ==
    LET p == IF path = None
             THEN Path(self.screenshots_dir, "page", env.now) ELSE path
        failed(e, calls) ==
            LET msg == <<"Failed to", " take page screenshot: ">> \o Str(e)
            IN  Outcome(ActionFailed(msg), <<None>>, <<Error(msg)>>, calls, {})
    IN  screenshot_on_error("take_screenshot",
          IF ~env.dirOk THEN failed(OSError, << >>)
          ELSE IF env.eng # "ok" THEN failed(Raised(env.eng), <<"page.screenshot">>)
          ELSE Outcome(NoExc, p, <<Info(<<"Screenshot of page saved: ", p>>)>>,
                       <<"page.screenshot">>, {p}),
          self, env)

\* pytest_check's check.equal(actual, expected, msg): records the comparison
\* and returns; it raises nothing.
check_equal(actual, expected) == IF actual = expected THEN "pass" ELSE "fail"

\* BasePage.assert_text(selector, expected); the engine's text is env.val.
assert_text(self, selector, expected, env) ==
    LET calls == <<"page.locator", "locator.text_content">>
    IN  screenshot_on_error("assert_text",
          CASE env.eng = "ok" ->
                 [Outcome(NoExc, <<None>>,
                          <<Info(<<"Asserted text for ", selector, env.val, expected>>)>>,
                          calls, {})
                    EXCEPT !.check = check_equal(env.val, expected)]
            [] env.eng = "timeout" ->
                 LET msg == <<"Timeout", " asserting text for selector: ", selector>>
                 IN  Outcome(ActionFailed(msg), <<None>>, <<Error(msg)>>, calls, {})
            [] OTHER ->
                 LET msg == <<"Failed to", " assert text: ">> \o Str(Raised(env.eng))
                 IN  Outcome(ActionFailed(msg), <<None>>, <<Error(msg)>>, calls, {}),
          self, env)

(***************************************************************************)
(* class BrowserManager.  self is [playwright, browser, context, page],    *)
(* each a reference into the engine's world or NoRef (Python's None).      *)
(* The world w is what the engine holds: the drivers started, the browsers *)
(* launched, the contexts and the pages created, each open or closed and   *)
(* each knowing its parent.  A reference is an index into its sequence.    *)
(***************************************************************************)
NoRef == 0

\* BrowserManager.__init__
BrowserManager == [playwright |-> NoRef, browser |-> NoRef, context |-> NoRef,
                   page |-> NoRef]

EmptyWorld == [drivers |-> << >>, browsers |-> << >>, contexts |-> << >>,
               pages |-> << >>]

\* Closing a page; closing a context with its pages; closing a browser with
\* its contexts; stopping a driver with its browsers.
ClosePage(w, p) == [w EXCEPT !.pages[p].open = FALSE]

CloseContext(w, c) ==
    [w EXCEPT !.contexts[c].open = FALSE,
              !.pages = [p \in DOMAIN w.pages |->
                            IF w.pages[p].context = c
                            THEN [w.pages[p] EXCEPT !.open = FALSE]
                            ELSE w.pages[p]]]

CloseBrowser(w, b) ==
    LET ctxs == {c \in DOMAIN w.contexts : w.contexts[c].browser = b}
    IN  [w EXCEPT !.browsers[b].open = FALSE,
                  !.contexts = [c \in DOMAIN w.contexts |->
                                   IF c \in ctxs
                                   THEN [w.contexts[c] EXCEPT !.open = FALSE]
                                   ELSE w.contexts[c]],
                  !.pages = [p \in DOMAIN w.pages |->
                                IF w.pages[p].context \in ctxs
                                THEN [w.pages[p] EXCEPT !.open = FALSE]
                                ELSE w.pages[p]]]

RECURSIVE CloseBrowsers(_, _)
CloseBrowsers(w, bs) ==
    IF bs = {} THEN w
    ELSE LET b == CHOOSE x \in bs : TRUE
         IN  CloseBrowsers(CloseBrowser(w, b), bs \ {b})

StopDriver(w, d) ==
    [CloseBrowsers(w, {b \in DOMAIN w.browsers : w.browsers[b].driver = d})
        EXCEPT !.drivers[d] = FALSE]

\* What a session call returns: the manager and the world after it, and how
\* the call ended.
Done(self, w, out) == [self |-> self, world |-> w, out |-> Unwrapped(out)]

\* BrowserManager.start_browser; failAt names the engine call that raises:
\* "start" (sync_playwright().start()), "launch" (the launcher lookup or
\* launch()), or "none".
start_browser(self, w, failAt) ==
    LET failed(s, v, calls) ==
            LET msg == <<"Failed to", " start browser: ">> \o Str(EngineError)
            IN  Done(s, v, Outcome(NavigationError(msg), <<None>>, <<Error(msg)>>,
                                   calls, {}))
        d == Len(w.drivers) + 1
        b == Len(w.browsers) + 1
        w1 == [w EXCEPT !.drivers = Append(@, TRUE)]
        s1 == [self EXCEPT !.playwright = d]
        w2 == [w1 EXCEPT !.browsers = Append(@, [open |-> TRUE, driver |-> d])]
        s2 == [s1 EXCEPT !.browser = b]
    IN  CASE failAt = "start"  -> failed(self, w, <<"sync_playwright.start">>)
          [] failAt = "launch" -> failed(s1, w1, <<"sync_playwright.start", "launch">>)
          [] OTHER ->
               Done(s2, w2, Outcome(NoExc, <<None>>, <<Info(<<"Started browser">>)>>,
                                    <<"sync_playwright.start", "launch">>, {}))

\* The close steps of stop_browser, in the order of its if statements, and
\* the engine call of each.
StopOrder == <<"page", "context", "browser", "playwright">>

CloseCall == [page |-> "page.close", context |-> "context.close",
              browser |-> "browser.close", playwright |-> "playwright.stop"]

\* The world after the close step `step` of stop_browser succeeded.
CloseStep(w, self, step) ==
    CASE step = "page"    -> ClosePage(w, self.page)
      [] step = "context" -> CloseContext(w, self.context)
      [] step = "browser" -> CloseBrowser(w, self.browser)
      [] OTHER            -> StopDriver(w, self.playwright)

RECURSIVE CloseSteps(_, _, _)
CloseSteps(w, self, steps) ==
    IF steps = << >> THEN w
    ELSE CloseSteps(CloseStep(w, self, Head(steps)), self, Tail(steps))

\* A variant of stop_browser that never stops the driver.
StopBrowserLeavesDriver(self, w, failAt) ==
    LET steps == SelectSeq(SubSeq(StopOrder, 1, 3), LAMBDA x : self[x] # NoRef)
        at == IF \E i \in 1..Len(steps) : steps[i] = failAt
              THEN CHOOSE i \in 1..Len(steps) : steps[i] = failAt
              ELSE 0
        attempted == IF at = 0 THEN steps ELSE SubSeq(steps, 1, at)
        closed == IF at = 0 THEN steps ELSE SubSeq(steps, 1, at - 1)
        calls == [i \in 1..Len(attempted) |-> CloseCall[attempted[i]]]
        w1 == CloseSteps(w, self, closed)
    IN  IF at = 0
        THEN Done(self, w1,
                  Outcome(NoExc, <<None>>,
                          <<Info(<<"Stopped browser and cleaned up resources.">>)>>,
                          calls, {}))
        ELSE LET msg == <<"Failed to", " stop browser: ">> \o Str(EngineError)
             IN  Done(self, w1, Outcome(NavigationError(msg), <<None>>,
                                        <<Error(msg)>>, calls, {}))

\* BrowserManager.stop_browser; failAt names the close step that raises, or
\* "none".  One try block holds the four steps: the first one that raises
\* ends it.
stop_browser(self, w, failAt) ==
    LET steps == SelectSeq(StopOrder, LAMBDA x : self[x] # NoRef)
        at == IF \E i \in 1..Len(steps) : steps[i] = failAt
              THEN CHOOSE i \in 1..Len(steps) : steps[i] = failAt
              ELSE 0
        attempted == IF at = 0 THEN steps ELSE SubSeq(steps, 1, at)
        closed == IF at = 0 THEN steps ELSE SubSeq(steps, 1, at - 1)
        calls == [i \in 1..Len(attempted) |-> CloseCall[attempted[i]]]
        w1 == CloseSteps(w, self, closed)
    IN  IF at = 0
        THEN Done(self, w1,
                  Outcome(NoExc, <<None>>,
                          <<Info(<<"Stopped browser and cleaned up resources.">>)>>,
                          calls, {}))
        ELSE LET msg == <<"Failed to", " stop browser: ">> \o Str(EngineError)
             IN  Done(self, w1, Outcome(NavigationError(msg), <<None>>,
                                        <<Error(msg)>>, calls, {}))

\* A variant of new_context that lets the AttributeError of a missing browser
\* escape as it is.
NewContextUnmapped(self, w, fail) ==
    LET failed(e, calls) ==
            LET msg == <<"Failed to", " create new context: ">> \o Str(e)
            IN  Done(self, w, Outcome(NavigationError(msg), <<None>>, <<Error(msg)>>,
                                      calls, {}))
        c == Len(w.contexts) + 1
        unmapped == Exc("AttributeError",
                        <<"'NoneType' object has no attribute 'new_context'">>)
    IN  IF self.browser = NoRef
        THEN Done(self, w, Outcome(unmapped, <<None>>, << >>, << >>, {}))
        ELSE IF fail \/ ~w.browsers[self.browser].open
        THEN failed(EngineError, <<"browser.new_context">>)
        ELSE Done([self EXCEPT !.context = c],
                  [w EXCEPT !.contexts =
                      Append(@, [open |-> TRUE, browser |-> self.browser])],
                  Outcome(NoExc, <<"context", c>>,
                          <<Info(<<"Created new browser context.">>)>>,
                          <<"browser.new_context">>, {}))

\* A variant of new_context that raises without writing the error record.
NewContextSilent(self, w, fail) ==
    LET failed(e, calls) ==
            LET msg == <<"Failed to", " create new context: ">> \o Str(e)
            IN  Done(self, w, Outcome(NavigationError(msg), <<None>>, << >>,
                                      calls, {}))
        c == Len(w.contexts) + 1
    IN  IF self.browser = NoRef
        THEN failed(Exc("AttributeError",
                        <<"'NoneType' object has no attribute 'new_context'">>), << >>)
        ELSE IF fail \/ ~w.browsers[self.browser].open
        THEN failed(EngineError, <<"browser.new_context">>)
        ELSE Done([self EXCEPT !.context = c],
                  [w EXCEPT !.contexts =
                      Append(@, [open |-> TRUE, browser |-> self.browser])],
                  Outcome(NoExc, <<"context", c>>,
                          <<Info(<<"Created new browser context.">>)>>,
                          <<"browser.new_context">>, {}))

\* BrowserManager.new_context; fail says whether browser.new_context raises
\* (it always does on a closed browser).
new_context(self, w, fail) ==
    LET failed(e, calls) ==
            LET msg == <<"Failed to", " create new context: ">> \o Str(e)
            IN  Done(self, w, Outcome(NavigationError(msg), <<None>>, <<Error(msg)>>,
                                      calls, {}))
        c == Len(w.contexts) + 1
    IN  IF self.browser = NoRef
        THEN failed(Exc("AttributeError",
                        <<"'NoneType' object has no attribute 'new_context'">>), << >>)
        ELSE IF fail \/ ~w.browsers[self.browser].open
        THEN failed(EngineError, <<"browser.new_context">>)
        ELSE Done([self EXCEPT !.context = c],
                  [w EXCEPT !.contexts =
                      Append(@, [open |-> TRUE, browser |-> self.browser])],
                  Outcome(NoExc, <<"context", c>>,
                          <<Info(<<"Created new browser context.">>)>>,
                          <<"browser.new_context">>, {}))

\* A variant of new_page that opens a context of its own on a started session,
\* whether or not one is tracked.
NewPageFreshContext(self, w, failCtx, failPage) ==
    LET first == IF self.context = NoRef \/ self.browser # NoRef
                 THEN new_context(self, w, failCtx)
                 ELSE Done(self, w, Outcome(NoExc, <<None>>, << >>, << >>, {}))
        s1 == first.self
        w1 == first.world
        failed(e, calls) ==
            LET msg == <<"Failed to", " create new page: ">> \o Str(e)
            IN  Done(s1, w1, Outcome(NavigationError(msg), <<None>>,
                                     first.out.log \o <<Error(msg)>>, calls, {}))
        p == Len(w1.pages) + 1
        calls == first.out.calls \o <<"context.new_page">>
    IN  IF first.out.exc # NoExc THEN failed(first.out.exc, first.out.calls)
        ELSE IF failPage \/ ~w1.contexts[s1.context].open
        THEN failed(EngineError, calls)
        ELSE Done([s1 EXCEPT !.page = p],
                  [w1 EXCEPT !.pages =
                      Append(@, [open |-> TRUE, context |-> s1.context])],
                  Outcome(NoExc, <<"page", p>>,
                          first.out.log \o <<Info(<<"Created new page.">>)>>,
                          calls, {}))

\* A variant of new_page that keeps the page it already tracks.
NewPageKeepsFirst(self, w, failCtx, failPage) ==
    LET first == IF self.context = NoRef
                 THEN new_context(self, w, failCtx)
                 ELSE Done(self, w, Outcome(NoExc, <<None>>, << >>, << >>, {}))
        s1 == first.self
        w1 == first.world
        failed(e, calls) ==
            LET msg == <<"Failed to", " create new page: ">> \o Str(e)
            IN  Done(s1, w1, Outcome(NavigationError(msg), <<None>>,
                                     first.out.log \o <<Error(msg)>>, calls, {}))
        p == Len(w1.pages) + 1
        calls == first.out.calls \o <<"context.new_page">>
    IN  IF first.out.exc # NoExc THEN failed(first.out.exc, first.out.calls)
        ELSE IF failPage \/ ~w1.contexts[s1.context].open
        THEN failed(EngineError, calls)
        ELSE Done([s1 EXCEPT !.page = IF @ = NoRef THEN p ELSE @],
                  [w1 EXCEPT !.pages =
                      Append(@, [open |-> TRUE, context |-> s1.context])],
                  Outcome(NoExc, <<"page", p>>,
                          first.out.log \o <<Info(<<"Created new page.">>)>>,
                          calls, {}))

\* BrowserManager.new_page; failCtx and failPage say whether
\* browser.new_context and context.new_page raise (new_page always does on a
\* closed context).
new_page(self, w, failCtx, failPage) ==
    LET first == IF self.context = NoRef
                 THEN new_context(self, w, failCtx)
                 ELSE Done(self, w, Outcome(NoExc, <<None>>, << >>, << >>, {}))
        s1 == first.self
        w1 == first.world
        failed(e, calls) ==
            LET msg == <<"Failed to", " create new page: ">> \o Str(e)
            IN  Done(s1, w1, Outcome(NavigationError(msg), <<None>>,
                                     first.out.log \o <<Error(msg)>>, calls, {}))
        p == Len(w1.pages) + 1
        calls == first.out.calls \o <<"context.new_page">>
    IN  IF first.out.exc # NoExc THEN failed(first.out.exc, first.out.calls)
        ELSE IF failPage \/ ~w1.contexts[s1.context].open
        THEN failed(EngineError, calls)
        ELSE Done([s1 EXCEPT !.page = p],
                  [w1 EXCEPT !.pages =
                      Append(@, [open |-> TRUE, context |-> s1.context])],
                  Outcome(NoExc, <<"page", p>>,
                          first.out.log \o <<Info(<<"Created new page.">>)>>,
                          calls, {}))

(***************************************************************************)
(* The state.                                                              *)
(*   element   the Element handle the test holds (NoElement: none yet)     *)
(*   passes, failures   the soft checks pytest_check has recorded          *)
(*   clock     the latest reading of datetime.now(), in microseconds       *)
(*   files     the screenshot files on disk                                *)
(*   manager   the BrowserManager's fields                                 *)
(*   world     the engine's drivers, browsers, contexts and pages          *)
(*   last      the latest call: its operation and argument, the outcome of *)
(*             its engine primitive, and how it ended                      *)
(*   run       the pytest run over the fixtures of tests/conftest.py: its  *)
(*             phase, the page the session fixture created, the page the   *)
(*             page fixture yielded to the current test, and the outcomes  *)
(*             of the tests run so far                                     *)
(***************************************************************************)
VARIABLES element, passes, failures, clock, files, manager, world, last, run

vars == <<element, passes, failures, clock, files, manager, world, last, run>>

handleVars == <<element, passes, failures, clock, files>>
sessionVars == <<manager, world>>

NoElement == [locator |-> None, page |-> None, screenshots_dir |-> None]

\* The page handle under test: BasePage(page, logger), with the default
\* screenshots_dir.
ThePage == BasePage("page", "screenshots")

\* No fixture has been set up and no test has run.
NoRun == [phase |-> "collected", first |-> NoRef, yielded |-> NoRef,
          results |-> << >>]

NoCall ==
    [op |-> "none", arg |-> None, name |-> << >>, eng |-> "none",
     exc |-> NoExc, inner |-> NoExc, ret |-> <<None>>, log |-> << >>,
     calls |-> << >>, written |-> {}, captures |-> 0, check |-> "none",
     diag |-> "none", val |-> None]

Init ==
    /\ element = NoElement
    /\ passes = 0
    /\ failures = 0
    /\ clock = 0
    /\ files = {}
    /\ manager = BrowserManager
    /\ world = EmptyWorld
    /\ last = NoCall
    /\ run = NoRun

\* The call op(arg) ended as r.  eng is the outcome of its engine primitive
\* ("none" when the call reached no primitive) and val the value the
\* primitive returned.
Called(op, arg, name, env, r) ==
    [op |-> op, arg |-> arg, name |-> name,
     eng |-> IF r.calls = << >> THEN "none" ELSE env.eng,
     val |-> IF r.calls # << >> /\ env.eng = "ok" THEN env.val ELSE None,
     exc |-> r.exc, inner |-> r.inner, ret |-> r.ret, log |-> r.log,
     calls |-> r.calls, written |-> r.written, captures |-> r.captures,
     check |-> r.check, diag |-> r.diag]

\* The environment of a call that reaches no engine primitive.
NoEnv == Env("none", None, TRUE, TRUE, 0)

(***************************************************************************)
(* What the environment may answer.                                        *)
(***************************************************************************)
EngineOutcomes == {"ok", "timeout", "error"}

\* A locator primitive on a selector: any outcome when the page holds the
\* node; with no node the engine waits for one until the timeout, except
\* that the probes and wait_for may be satisfied by its absence.
LocatorOutcomes(op, selector) ==
    IF selector \in Present THEN EngineOutcomes
    ELSE IF op \in {"is_visible", "is_hidden", "wait_for"} THEN {"ok", "timeout"}
    ELSE {"timeout"}

\* The values a primitive returns.
ValuesOf(op) ==
    CASE op \in {"get_text", "get_attribute"} -> Texts
      [] op \in {"is_visible", "is_hidden", "is_enabled"} -> {"True", "False"}
      [] OTHER -> {None}

\* A reading of the clock: it never runs backwards, and two readings may
\* fall in the same microsecond.
Nows == {n \in clock..MaxClock : n <= clock + 1}

\* The environments of one call.  An answer the call cannot observe is held
\* at one value: the returned value when the primitive raises, and the
\* interceptor's capture when the primitive succeeds or the directory
\* cannot be made.
Envs(engs, vals) ==
    {env \in {Env(e, v, d, c, n) :
                e \in engs, v \in vals, d \in BOOLEAN, c \in BOOLEAN, n \in Nows} :
        /\ env.eng # "ok" => env.val = CHOOSE v \in vals : TRUE
        /\ (env.eng = "ok" \/ ~env.dirOk) => env.capOk}

\* The effect of a handle call that ended as r.
HandleCall(op, arg, name, env, r) ==
    /\ last' = Called(op, arg, name, env, r)
    /\ Cardinality(files \cup r.written) <= MaxFiles
    /\ files' = files \cup r.written
    /\ clock' = env.now
    /\ UNCHANGED sessionVars
    /\ UNCHANGED run

(***************************************************************************)
(* The operations of an Element handle.                                    *)
(***************************************************************************)
ElementAction(op) ==
    /\ element # NoElement
    /\ \E env \in Envs(LocatorOutcomes(op, element.locator), ValuesOf(op)) :
         HandleCall(op, element.locator, << >>, env,
                    ElementCall(op, element, None, env))
    /\ UNCHANGED <<element, passes, failures>>

Click == ElementAction("click")
Fill == ElementAction("fill")
Hover == ElementAction("hover")
Type == ElementAction("type")
Press == ElementAction("press")
SelectOption == ElementAction("select_option")
GetText == ElementAction("get_text")
GetAttribute == ElementAction("get_attribute")
WaitFor == ElementAction("wait_for")
IsVisible == ElementAction("is_visible")
IsHidden == ElementAction("is_hidden")
IsEnabled == ElementAction("is_enabled")

Screenshot ==
    /\ element # NoElement
    /\ \E path \in {None, UserPath} :
       \E env \in Envs(LocatorOutcomes("screenshot", element.locator), {None}) :
         HandleCall("screenshot", element.locator, << >>, env,
                    ElementCall("screenshot", element, path, env))
    /\ UNCHANGED <<element, passes, failures>>

\* s without its i-th character.
Drop(s, i) == SubSeq(s, 1, i - 1) \o SubSeq(s, i + 1, Len(s))

\* Operation names outside the supported set that a test may request: every
\* supported name with one character dropped, and some names of operations
\* the handle does not have.
OtherNames ==
    ( UNION {{Drop(n, i) : i \in 1..Len(n)} : n \in ValidNames}
      \cup { <<"c","h","e","c","k">>,
             <<"t","a","p">>,
             <<"x","y","z">>,
             <<"c","l","e","a","r">>,
             <<"s","u","b","m","i","t">>,
             <<"i","s","_","c","h","e","c","k","e","d">>,
             <<"s","e","t","_","t","e","x","t">> } )
    \ ValidNames

\* getattr(element, name) for every name of the supported set and every name
\* of OtherNames, each answered once from the table below.
GetAttrTable == [n \in ValidNames \cup OtherNames |-> ElementGetAttr(n)]

GetAttr ==
    /\ element # NoElement
    /\ \E n \in DOMAIN GetAttrTable :
         /\ last' = Called("__getattr__", element.locator, n, NoEnv, GetAttrTable[n])
         /\ UNCHANGED <<files, clock>>
    /\ UNCHANGED <<element, passes, failures, manager, world, run>>

(***************************************************************************)
(* The operations of the page handle.                                      *)
(***************************************************************************)
Find ==
    \E selector \in Selectors :
    \E env \in Envs(EngineOutcomes, {None}) :
        LET r == find(ThePage, selector, selector, env)
        IN  /\ last' = Called("find", selector, << >>, env, r)
            /\ element' = IF r.exc = NoExc
                          THEN Element(selector, ThePage.page, ThePage.screenshots_dir)
                          ELSE element
            /\ UNCHANGED <<passes, failures, clock, files, manager, world, run>>

WaitForUrl ==
    /\ \E env \in Envs(EngineOutcomes, {None}) :
         HandleCall("wait_for_url", "**/register", << >>, env,
                    wait_for_url(ThePage, "**/register", env))
    /\ UNCHANGED <<element, passes, failures>>

WaitForSelector ==
    /\ \E selector \in Selectors :
       \E env \in Envs(EngineOutcomes, {None}) :
         HandleCall("wait_for_selector", selector, << >>, env,
                    wait_for_selector(ThePage, selector, env))
    /\ UNCHANGED <<element, passes, failures>>

TakeScreenshot ==
    /\ \E path \in {None, UserPath} :
       \E env \in Envs(EngineOutcomes, {None}) :
         HandleCall("take_screenshot", None, << >>, env,
                    take_screenshot(ThePage, path, env))
    /\ UNCHANGED <<element, passes, failures>>

AssertText ==
    \E selector \in Selectors, expected \in Texts :
    \E env \in Envs(LocatorOutcomes("get_text", selector), Texts) :
        LET r == assert_text(ThePage, selector, expected, env)
            p == passes + (IF r.check = "pass" THEN 1 ELSE 0)
            f == failures + (IF r.check = "fail" THEN 1 ELSE 0)
        IN  /\ p <= MaxChecks
            /\ f <= MaxChecks
            /\ passes' = p
            /\ failures' = f
            /\ HandleCall("assert_text", expected, << >>, env, r)
            /\ UNCHANGED element

Next ==
    \/ Click \/ Fill \/ Hover \/ Type \/ Press \/ SelectOption \/ GetText
    \/ GetAttribute \/ WaitFor \/ IsVisible \/ IsHidden \/ IsEnabled
    \/ Screenshot
    \/ Find \/ WaitForUrl \/ WaitForSelector \/ TakeScreenshot \/ AssertText

\* The operations of the Element and BasePage handles over one live page.
Spec == Init /\ [][Next]_vars

DispatchNext == Find \/ GetAttr

\* Attribute requests on the Element handles that find returns.
DispatchSpec == Init /\ [][DispatchNext]_vars

(***************************************************************************)
(* The operations of the session manager.                                  *)
(***************************************************************************)
SessionCall(op, r) ==
    /\ manager' = r.self
    /\ world' = r.world
    /\ last' = Called(op, None, << >>, NoEnv, r.out)
    /\ UNCHANGED handleVars
    /\ UNCHANGED run

StartBrowser ==
    /\ Len(world.drivers) < MaxStarts
    /\ \E failAt \in {"none", "start", "launch"} :
         SessionCall("start_browser", start_browser(manager, world, failAt))

StopBrowser ==
    \E failAt \in {"none"} \cup {x \in DOMAIN CloseCall : manager[x] # NoRef} :
        SessionCall("stop_browser", stop_browser(manager, world, failAt))

NewContext ==
    /\ Len(world.contexts) < MaxContexts
    /\ \E fail \in BOOLEAN :
         SessionCall("new_context", new_context(manager, world, fail))

NewPage ==
    /\ Len(world.contexts) < MaxContexts \/ manager.context # NoRef
    /\ Len(world.pages) < MaxPages
    /\ \E failCtx \in BOOLEAN, failPage \in BOOLEAN :
         SessionCall("new_page", new_page(manager, world, failCtx, failPage))

SessionNext == StartBrowser \/ StopBrowser \/ NewContext \/ NewPage

\* One BrowserManager driven by its four lifecycle operations.
SessionSpec == Init /\ [][SessionNext]_vars

(***************************************************************************)
(* The fixtures of tests/conftest.py, as pytest drives them: the session   *)
(* fixture browser_manager is set up once, each test sets up the page      *)
(* fixture, runs its body on the yielded page and tears the page fixture   *)
(* down, and the session fixture is torn down at the end of the run.       *)
(***************************************************************************)
\* browser_manager up to its yield; fail names the manager call that raises:
\* "start", "launch", "context", "page", or "none".  The viewport calls on
\* the page are best-effort and change nothing of the manager.
browser_manager_setup(self, w, fail) ==
    LET s == start_browser(self, w, IF fail \in {"start", "launch"} THEN fail ELSE "none")
        c == new_context(s.self, s.world, fail = "context")
        p == new_page(c.self, c.world, FALSE, fail = "page")
    IN  IF s.out.exc # NoExc THEN s
        ELSE IF c.out.exc # NoExc THEN c
        ELSE IF p.out.exc # NoExc THEN p
        ELSE [p EXCEPT !.self.page = p.out.ret[2]]

\* A variant of the page fixture that opens a page for every test.
PageSetupFresh(self, w, failCtx, failPage) ==
    LET p == new_page(self, w, failCtx, failPage)
    IN  IF p.out.exc # NoExc
        THEN [self |-> p.self, world |-> p.world, page |-> NoRef,
              exc |-> p.out.exc]
        ELSE [self |-> [p.self EXCEPT !.page = p.out.ret[2]],
              world |-> p.world, page |-> p.out.ret[2], exc |-> NoExc]

\* The page fixture up to its yield: the manager's page, or a new one when
\* the manager has none.  page is the reference the fixture holds.
page_setup(self, w, failCtx, failPage) ==
    IF self.page # NoRef
    THEN [self |-> self, world |-> w, page |-> self.page, exc |-> NoExc]
    ELSE LET p == new_page(self, w, failCtx, failPage)
         IN  IF p.out.exc # NoExc
             THEN [self |-> p.self, world |-> p.world, page |-> NoRef,
                   exc |-> p.out.exc]
             ELSE [self |-> [p.self EXCEPT !.page = p.out.ret[2]],
                   world |-> p.world, page |-> p.out.ret[2], exc |-> NoExc]

\* The page fixture after its yield: the page is closed only when it is not
\* the manager's page; an exception of close() is discarded.
page_teardown(self, w, page, closeFails) ==
    IF page # self.page /\ ~closeFails THEN ClosePage(w, page) ELSE w

\* The outcomes of a test body.  The tests of tests/test_orangehrm.py use
\* the yielded page through a page object and never the manager.
TestOutcomes == {"passed", "failed"}

SessionSetup ==
    /\ run.phase = "collected"
    /\ \E fail \in {"none", "start", "launch", "context", "page"} :
         LET r == browser_manager_setup(manager, world, fail)
         IN  /\ manager' = r.self
             /\ world' = r.world
             /\ last' = Called("browser_manager", None, << >>, NoEnv, r.out)
             /\ run' = IF r.out.exc # NoExc
                       THEN [run EXCEPT !.phase = "error"]
                       ELSE [run EXCEPT !.phase = "ready", !.first = r.self.page]
    /\ UNCHANGED handleVars

PageSetup ==
    /\ run.phase = "ready"
    /\ Len(run.results) < MaxTests
    /\ \E failCtx \in BOOLEAN, failPage \in BOOLEAN :
         LET r == page_setup(manager, world, failCtx, failPage)
         IN  /\ manager' = r.self
             /\ world' = r.world
             /\ run' = IF r.exc # NoExc
                       THEN [run EXCEPT !.results = Append(@, "error")]
                       ELSE [run EXCEPT !.phase = "test", !.yielded = r.page]
    /\ UNCHANGED <<handleVars, last>>

TestBody ==
    /\ run.phase = "test"
    /\ \E outcome \in TestOutcomes :
         run' = [run EXCEPT !.phase = "ran", !.results = Append(@, outcome)]
    /\ UNCHANGED <<handleVars, sessionVars, last>>

PageTeardown ==
    /\ run.phase = "ran"
    /\ \E closeFails \in BOOLEAN :
         world' = page_teardown(manager, world, run.yielded, closeFails)
    /\ run' = [run EXCEPT !.phase = "ready"]
    /\ UNCHANGED <<handleVars, manager, last>>

SessionTeardown ==
    /\ run.phase = "ready"
    /\ \E failAt \in {"none"} \cup {x \in DOMAIN CloseCall : manager[x] # NoRef} :
         LET r == stop_browser(manager, world, failAt)
         IN  /\ manager' = r.self
             /\ world' = r.world
             /\ last' = Called("stop_browser", None, << >>, NoEnv, r.out)
    /\ run' = [run EXCEPT !.phase = "finished"]
    /\ UNCHANGED handleVars

FixtureNext ==
    SessionSetup \/ PageSetup \/ TestBody \/ PageTeardown \/ SessionTeardown

\* One pytest run of sequential tests over one BrowserManager.
FixtureSpec == Init /\ [][FixtureNext]_vars

(***************************************************************************)
(* Single calls on each layer.  A handle operation is called while nothing *)
(* has been written, checked or timed yet and no session is in use; the    *)
(* session manager is driven while no handle is in use.                    *)
(***************************************************************************)
NothingRecorded == files = {} /\ clock = 0 /\ passes = 0 /\ failures = 0

LayerNext ==
    \/ /\ NothingRecorded
       /\ manager = BrowserManager
       /\ world = EmptyWorld
       /\ Next
    \/ /\ NothingRecorded
       /\ element = NoElement
       /\ last.op \notin DOMAIN Primitive \cup {"find", "wait_for_url", "wait_for_selector",
                                                "take_screenshot", "assert_text"}
       /\ SessionNext

LayerSpec == Init /\ [][LayerNext]_vars

(***************************************************************************)
(* Vocabulary of the properties below.                                     *)
(***************************************************************************)
\* The thirteen operations of an Element handle.
ElementOps == DOMAIN Primitive

\* The operations decorated with @screenshot_on_error.
InterceptedOps ==
    ElementOps \cup {"wait_for_url", "wait_for_selector", "take_screenshot",
                     "assert_text"}

\* The error kind each operation documents.
DocumentedKind(op) ==
    CASE op \in {"find", "wait_for_selector"} -> "ElementNotFound"
      [] op = "wait_for_url" -> "NavigationError"
      [] OTHER -> "ActionFailed"

Failed == last.exc # NoExc

\* The engine primitives each handle operation is written to call.
PrimitivesOf(op) ==
    CASE op \in DOMAIN Primitive -> {Primitive[op]}
      [] op = "find" -> {"page.locator"}
      [] op = "wait_for_url" -> {"page.wait_for_url"}
      [] op = "wait_for_selector" -> {"page.wait_for_selector"}
      [] op = "take_screenshot" -> {"page.screenshot"}
      [] op = "assert_text" -> {"page.locator", "locator.text_content"}
      [] OTHER -> {}

HandleOps == ElementOps \cup {"find", "wait_for_url", "wait_for_selector",
                              "take_screenshot", "assert_text"}

\* How many times a call sequence names an engine call.
Times(calls, prim) == Cardinality({i \in DOMAIN calls : calls[i] = prim})

\* The files of the interceptor's captures among a set of paths.
ErrorShots(paths) == {p \in paths : p[2] = "error"}

(***************************************************************************)
(* C1.  The interceptor is transparent: when the wrapped operation returns *)
(* the call returns its value, attempts no capture and logs no error; when *)
(* it raises E the call raises E itself.                                   *)
(***************************************************************************)
C1_InterceptorTransparent ==
    last.op \in InterceptedOps =>
        /\ last.inner = NoExc =>
              /\ last.exc = NoExc
              /\ last.captures = 0
              /\ ErrorRecords(last.log) = {}
              /\ ErrorShots(last.written) = {}
        /\ last.inner # NoExc => last.exc = last.inner

(***************************************************************************)
(* C2.  A failing diagnostic step (making the screenshot directory, or the *)
(* page screenshot) is logged and discarded: the caller still receives the *)
(* original error E.                                                       *)
(***************************************************************************)
C2_CaptureFailureNeverMasks ==
    (last.op \in InterceptedOps /\ last.diag \in {"makedirs raised", "capture raised"}) =>
        /\ last.exc = last.inner
        /\ \E i \in ErrorRecords(last.log) :
              last.log[i].text[1] = "Failed to capture screenshot: "

(***************************************************************************)
(* C3.  Every handle operation that fails has attempted exactly one        *)
(* diagnostic capture, and raises its documented error kind.               *)
(***************************************************************************)
C3_ExactlyOneCaptureOnFailure ==
    (last.op \in InterceptedOps \cup {"find"} /\ Failed) =>
        /\ last.captures = 1
        /\ last.exc.kind = DocumentedKind(last.op)

(***************************************************************************)
(* C4.  A failing engine call of an Element operation surfaces as          *)
(* ActionFailed alone, with the "Timeout ..." message for the engine's     *)
(* timeout and the "Failed to ...: <cause>" message for any other failure. *)
(***************************************************************************)
C4_ElementErrorMapping ==
    (last.op \in ElementOps /\ last.eng \in {"timeout", "error"}) =>
        /\ last.exc.kind = "ActionFailed"
        /\ last.exc.msg[1] = (IF last.eng = "timeout" THEN "Timeout" ELSE "Failed to")

(***************************************************************************)
(* C7.  assert_text is a soft assertion: a text read successfully is       *)
(* compared and recorded, a pass when equal and exactly one failure when   *)
(* not, and the call returns without a capture; a timeout while reading    *)
(* the text raises ActionFailed.                                           *)
(***************************************************************************)
C7_AssertTextSoft ==
    [][ last'.op = "assert_text" =>
          /\ last'.eng = "ok" =>
                /\ last'.exc = NoExc
                /\ last'.captures = 0
                /\ passes' = passes + (IF last'.val = last'.arg THEN 1 ELSE 0)
                /\ failures' = failures + (IF last'.val = last'.arg THEN 0 ELSE 1)
          /\ last'.eng = "timeout" => last'.exc.kind = "ActionFailed" ]_vars

(***************************************************************************)
(* C8.  The page handle's operations fail with their documented kind only: *)
(* find and wait_for_selector with ElementNotFound, wait_for_url with      *)
(* NavigationError, take_screenshot with ActionFailed.                     *)
(***************************************************************************)
C8_PageErrorKinds ==
    (last.op \in {"find", "wait_for_url", "wait_for_selector", "take_screenshot"}
     /\ Failed) =>
        last.exc.kind = DocumentedKind(last.op)

(***************************************************************************)
(* C9.  find on a selector that matches no node returns a handle; click on *)
(* that handle fails with ActionFailed and the timeout message, and the    *)
(* capture's file has been written.                                        *)
(***************************************************************************)
C9_FindThenClickMissing ==
    /\ (last.op = "find" /\ last.arg \notin Present /\ last.eng = "ok") =>
          /\ ~Failed
          /\ element.locator = last.arg
    /\ (last.op = "click" /\ last.arg \notin Present) =>
          /\ last.exc.kind = "ActionFailed"
          /\ last.exc.msg[1] = "Timeout"
          /\ ErrorShots(last.written) # {}

(***************************************************************************)
(* C5.  A request for a name outside the supported set fails at once with  *)
(* AttributeError: no engine call, no capture, the handle unchanged; the   *)
(* message names the closest supported operation when one is within the    *)
(* cutoff and says "No similar method found." otherwise.  A name of the    *)
(* supported set never fails so.                                           *)
(***************************************************************************)
C5_UnsupportedNameRejected ==
    last.op = "__getattr__" =>
        IF last.name \in ValidNames
        THEN ~Failed
        ELSE /\ last.exc.kind = "AttributeError"
             /\ last.calls = << >>
             /\ last.captures = 0
             /\ last.written = {}
             /\ element.locator = last.arg
             /\ LET close == {m \in ValidNames :
                                FracGeq(ratio(m, last.name), Cutoff)}
                    hint == SubSeq(last.exc.msg, 4, Len(last.exc.msg))
                IN  IF close = {}
                    THEN hint = <<"No similar method found.">>
                    ELSE \E m \in close :
                           /\ hint = <<"Did you mean: ", OpOf(m), "()?">>
                           /\ \A k \in close :
                                FracGeq(ratio(m, last.name), ratio(k, last.name))

\* A request for "is_enable" was refused with a suggestion, although two
\* supported names are within the cutoff of it.
C5_Witness ==
    /\ last.op = "__getattr__"
    /\ last.name = <<"i","s","_","e","n","a","b","l","e">>
    /\ last.exc.kind = "AttributeError"
    /\ last.exc.msg[4] = "Did you mean: "
    /\ Cardinality({m \in ValidNames : FracGeq(ratio(m, last.name), Cutoff)}) > 1

(***************************************************************************)
(* C6.  stop_browser attempts the close step of every resource the session *)
(* tracks, whether or not an earlier step failed, and raises               *)
(* NavigationError only after that.                                        *)
(***************************************************************************)
TrackedSteps == SelectSeq(StopOrder, LAMBDA x : manager[x] # NoRef)

C6_StopAttemptsEveryStep ==
    last.op = "stop_browser" =>
        /\ last.calls = [i \in 1..Len(TrackedSteps) |-> CloseCall[TrackedSteps[i]]]
        /\ Failed => last.exc.kind = "NavigationError"

(***************************************************************************)
(* C10.  As claimed: at most one context and at most one page created by   *)
(* the session is open at any time.                                        *)
(***************************************************************************)
OpenContexts == {c \in DOMAIN world.contexts : world.contexts[c].open}
OpenPages == {p \in DOMAIN world.pages : world.pages[p].open}

C10_AtMostOneOpen ==
    /\ Cardinality(OpenContexts) <= 1
    /\ Cardinality(OpenPages) <= 1

(***************************************************************************)
(* C10, amended.  The session tracks at most one context and one page, and *)
(* always the most recently created one: new_context and new_page replace  *)
(* the tracked reference (they do not close what it referred to).          *)
(***************************************************************************)
C10_TracksLatestOnly ==
    /\ manager.context \in {NoRef, Len(world.contexts)}
    /\ manager.page \in {NoRef, Len(world.pages)}

\* Two contexts and two pages of the session are open at once, the second of
\* each being the tracked one.
C10_Witness ==
    /\ OpenContexts = {1, 2}
    /\ OpenPages = {1, 2}
    /\ manager.context = 2
    /\ manager.page = 2

(***************************************************************************)
(* C11.  Between the set-up and the tear-down of the session fixture every *)
(* test is handed the page the session fixture created, no other page has  *)
(* been created, and that page is still the manager's page and open after  *)
(* each test's tear-down.                                                  *)
(***************************************************************************)
C11_SessionPageReused ==
    run.phase \in {"ready", "test", "ran"} =>
        /\ run.first # NoRef
        /\ manager.page = run.first
        /\ world.pages[run.first].open
        /\ Len(world.pages) = 1
        /\ run.phase \in {"test", "ran"} => run.yielded = run.first
        /\ run.results # << >> =>
              /\ run.yielded = run.first
              /\ \A i \in 1..Len(run.results) : run.results[i] \in TestOutcomes

\* Two tests have run, one of them failed, and the page fixture of a third
\* has been torn down with the session's page open.
C11_Witness ==
    /\ run.phase = "ready"
    /\ Len(run.results) = 3
    /\ "failed" \in {run.results[i] : i \in 1..3}
    /\ run.yielded = run.first
    /\ world.pages[run.first].open

(***************************************************************************)
(* C12.  new_page on a started session: with no context tracked it asks    *)
(* the browser for one context, first, and tracks the one it gets; with a  *)
(* context tracked it asks for none and leaves the tracked context as it   *)
(* was.  On success the page is created in the tracked context, is the     *)
(* value returned and becomes the tracked page.                            *)
(***************************************************************************)
C12_NewPageUsesTrackedContext ==
    [][ (last'.op = "new_page" /\ manager.browser # NoRef) =>
          LET asked == {i \in DOMAIN last'.calls : last'.calls[i] = "browser.new_context"}
              n == Len(world.contexts)
          IN  /\ manager.context = NoRef =>
                    /\ asked = {1}
                    /\ IF Len(last'.calls) = 2
                       THEN /\ Len(world'.contexts) = n + 1
                            /\ manager'.context = n + 1
                            /\ world'.contexts[n + 1].browser = manager.browser
                       ELSE /\ world'.contexts = world.contexts
                            /\ manager'.context = NoRef
              /\ manager.context # NoRef =>
                    /\ asked = {}
                    /\ world'.contexts = world.contexts
                    /\ manager'.context = manager.context
              /\ last'.exc = NoExc =>
                    /\ Len(world'.pages) = Len(world.pages) + 1
                    /\ world'.pages[Len(world'.pages)].context = manager'.context
                    /\ manager'.page = Len(world'.pages)
                    /\ last'.ret = <<"page", manager'.page>>
              /\ last'.exc # NoExc => world'.pages = world.pages ]_vars

\* new_page has succeeded on a session that tracked a context and a page: the
\* second page lies in the context tracked before the call.
C12_Witness ==
    /\ last.op = "new_page"
    /\ last.exc = NoExc
    /\ last.calls = <<"context.new_page">>
    /\ manager.page = 2
    /\ world.pages[2].context = manager.context
    /\ world.pages[1].context = manager.context

(***************************************************************************)
(* C13.  As claimed: one call of a handle operation invokes each of its    *)
(* engine primitives at most once, whatever the primitive's outcome.       *)
(***************************************************************************)
C13_PrimitiveAtMostOnce ==
    last.op \in HandleOps =>
        \A prim \in PrimitivesOf(last.op) : Times(last.calls, prim) <= 1

(***************************************************************************)
(* C13, amended.  The operation itself invokes each of its primitives at   *)
(* most once and nothing else; the interceptor adds, after a failure only, *)
(* at most one page.screenshot for its capture (which for take_screenshot  *)
(* is the operation's own primitive, invoked a second time) and never the  *)
(* wrapped operation again.                                                *)
(***************************************************************************)
C13_NoRetryBesidesCapture ==
    last.op \in HandleOps =>
        LET n == Len(last.calls)
            own == IF last.captures = 1 THEN SubSeq(last.calls, 1, n - 1)
                   ELSE last.calls
        IN  /\ last.captures \in {0, 1}
            /\ last.captures = 1 => (last.inner # NoExc /\ last.calls[n] = "page.screenshot")
            /\ \A i \in DOMAIN own : own[i] \in PrimitivesOf(last.op)
            /\ \A prim \in PrimitivesOf(last.op) : Times(own, prim) <= 1

\* take_screenshot failed and the interceptor captured: page.screenshot was
\* invoked twice within the one call.
C13_Witness ==
    /\ last.op = "take_screenshot"
    /\ Failed
    /\ last.captures = 1
    /\ last.calls = <<"page.screenshot", "page.screenshot">>

(***************************************************************************)
(* C14.  A screenshot named by the clock (error_, page_ or element_ and    *)
(* the timestamp) is never written to a path that an earlier screenshot    *)
(* already holds, however close together the two are taken.                *)
(***************************************************************************)
TimestampNamed(paths) == {p \in paths : p[2] \in {"error", "page", "element"}}

C14_CapturesNeverOverwrite ==
    [][ \A p \in TimestampNamed(last'.written) : p \notin files ]_vars

(***************************************************************************)
(* C15.  Every failing operation of the Element handle, the page handle    *)
(* and the session manager has written, before its error reaches the       *)
(* caller, an error record whose text is the message of the failure the    *)
(* operation raised.                                                       *)
(***************************************************************************)
SessionOps == {"start_browser", "stop_browser", "new_context", "new_page"}

C15_FailureLoggedFirst ==
    (last.op \in HandleOps \cup SessionOps /\ Failed) =>
        \E i \in ErrorRecords(last.log) : last.log[i].text = Str(last.inner)

\* An Element operation failed and the interceptor could not make the
\* screenshot directory: the error record of the operation is in the log.
C15_Witness ==
    /\ last.op \in ElementOps
    /\ last.diag = "makedirs raised"
    /\ last.exc = OSError
    /\ ErrorRecords(last.log) # {}

(***************************************************************************)
(* C16.  While no browser is tracked (the session was never started, or    *)
(* its start failed) new_context and new_page fail with NavigationError,   *)
(* create nothing and leave the tracked context and page absent; and a     *)
(* failing new_page, on any session, fails with NavigationError and leaves *)
(* the tracked page as it was.                                             *)
(***************************************************************************)
C16_UnstartedSessionRefuses ==
    [][ /\ (last'.op \in {"new_context", "new_page"} /\ manager.browser = NoRef) =>
              /\ last'.exc.kind = "NavigationError"
              /\ manager'.context = NoRef
              /\ manager'.page = NoRef
              /\ world' = world
        /\ (last'.op = "new_context" /\ last'.exc # NoExc) =>
              /\ last'.exc.kind = "NavigationError"
              /\ manager' = manager
        /\ (last'.op = "new_page" /\ last'.exc # NoExc) =>
              /\ last'.exc.kind = "NavigationError"
              /\ manager'.page = manager.page ]_vars

\* new_page has failed on a session whose start failed at the launch: the
\* driver runs, no browser, context or page is tracked.
C16_Witness ==
    /\ last.op = "new_page"
    /\ last.exc.kind = "NavigationError"
    /\ manager.playwright # NoRef
    /\ manager.browser = NoRef
    /\ manager.context = NoRef
    /\ manager.page = NoRef

(***************************************************************************)
(* C17.  stop_browser calls the close of the tracked page, context,        *)
(* browser and driver in that order, skipping what is not tracked; when it *)
(* returns normally each tracked one has been closed by one call, and a    *)
(* session that tracks nothing stops without error and without a call.     *)
(***************************************************************************)
C17_StopOrder ==
    [][ last'.op = "stop_browser" =>
          LET all == [i \in 1..Len(TrackedSteps) |-> CloseCall[TrackedSteps[i]]]
              n == Len(last'.calls)
          IN  /\ n <= Len(all)
              /\ last'.calls = SubSeq(all, 1, n)
              /\ last'.exc = NoExc =>
                    /\ last'.calls = all
                    /\ manager.page # NoRef => ~world'.pages[manager.page].open
                    /\ manager.context # NoRef => ~world'.contexts[manager.context].open
                    /\ manager.browser # NoRef => ~world'.browsers[manager.browser].open
                    /\ manager.playwright # NoRef => ~world'.drivers[manager.playwright]
              /\ last'.exc # NoExc => n >= 1
              /\ manager = BrowserManager =>
                    (last'.exc = NoExc /\ last'.calls = << >> /\ world' = world) ]_vars

\* stop_browser has returned normally on a session that tracked all four
\* resources: four calls, and all four are closed.
C17_Witness ==
    /\ last.op = "stop_browser"
    /\ last.exc = NoExc
    /\ last.calls = <<"page.close", "context.close", "browser.close", "playwright.stop">>
    /\ ~world.pages[manager.page].open
    /\ ~world.contexts[manager.context].open
    /\ ~world.browsers[manager.browser].open
    /\ ~world.drivers[manager.playwright]

=============================================================================
